---- MODULE Spec2Model ----
\* A model of the AmazonS3 facade of src/amazons3.py: one object holding a vendor
\* client handle and a default transfer configuration, whose methods pass their
\* arguments to the vendor client and translate (or do not translate) its errors.
\*
\* Python values are modelled as records tagged with their type, so that values
\* of different types can be compared: None, a str, a bool, a dict and a vendor
\* object never compare equal.
EXTENDS Integers, Sequences, FiniteSets, TLC

VARIABLES
    region_name,   \* self.region_name
    config,        \* self.config, the default transfer configuration
    heap,          \* the dict objects the extra-args builders work on, by object id
    held,          \* the ids of the dict objects the caller holds a reference to
    call,          \* the latest facade call: its arguments, the vendor calls it made,
                   \* how it ended, and what it logged and printed
    init_config,   \* history: the configuration the constructor was given
    last_put       \* history: the arguments of the latest put_transfer_config call

vars == <<region_name, config, heap, held, call, init_config, last_put>>

-----------------------------------------------------------------------------
\* Python values

None == [type |-> "NoneType"]
Str(s) == [type |-> "str", val |-> s]
PyInt(n) == [type |-> "int", val |-> n]
Bool(b) == [type |-> "bool", val |-> b]
True == Bool(TRUE)
False == Bool(FALSE)
Dict(d) == [type |-> "dict", val |-> d]
List(s) == [type |-> "list", val |-> s]
\* a stream open on a named resource
FileObj(n) == [type |-> "file", name |-> Str(n)]
\* a callable given as progress callback
Callable(n) == [type |-> "function", name |-> n]
\* what stands for a required positional argument the caller left out
Missing == [type |-> "missing"]
\* what stands for a keyword argument of a vendor constructor that was not passed
NotPassed == [type |-> "notpassed"]

ClientError(code) == [type |-> "ClientError", code |-> code]
TypeError == [type |-> "TypeError"]

\* boto3.s3.transfer.TransferConfig(multipart_threshold=, max_concurrency=,
\* use_threads=): the vendor's value object, known here by the keyword arguments
\* it was built from.
TransferConfig(multipart_threshold, max_concurrency, use_threads) ==
    [type |-> "TransferConfig",
     multipart_threshold |-> multipart_threshold,
     max_concurrency |-> max_concurrency,
     use_threads |-> use_threads]

\* TransferConfig(), the default of the constructor's config parameter
DefaultConfigArg == TransferConfig(NotPassed, NotPassed, NotPassed)

\* json.dumps(obj): a str holding the JSON text of obj
json_dumps(obj) == [type |-> "str", json |-> obj]

-----------------------------------------------------------------------------
\* The inputs the calls are tried on

BucketNames == {Str("my-bucket")}
FileNames == {Str("report.txt")}
ObjectNames == {Str("reports/r1")}
FileObjs == {FileObj("data.bin")}
Regions == {None, Str("us-west-2")}
Thresholds == {None, PyInt(5242880)}
Concurrencies == {None, PyInt(4)}
UseThreads == {None, False}
CallConfigs == {None, TransferConfig(PyInt(1048576), PyInt(2), True)}
CtorConfigs == {DefaultConfigArg, TransferConfig(PyInt(16777216), PyInt(8), True)}
ExtraArgs == {None, Dict([ACL |-> Str("public-read")])}
Callbacks == {None, Callable("progress")}
Expirations == {PyInt(3600), PyInt(60)}
ClientMethods == {Str("list_buckets")}
MethodParameters == {None}
HttpMethods == {None, Str("GET")}
Fields == {None}
Conditions == {None}
Policies == {Dict([Version |-> Str("2012-10-17")])}
WebsiteConfigurations == {Dict([IndexDocument |-> Dict([Suffix |-> Str("index.html")])])}
CorsRule == Dict([AllowedMethods |-> List(<<Str("GET")>>)])
CorsConfigurations == {Dict([CORSRules |-> List(<<CorsRule>>)])}

-----------------------------------------------------------------------------
\* The vendor client (self.s3_client): every call either returns a response or
\* raises ClientError with an error code.

ErrorCodes == {"NoSuchCORSConfiguration", "AllAccessDisabled", "AccessDenied"}

Returns(v) == [kind |-> "return", val |-> v]
Raises(e) == [kind |-> "raise", val |-> e]

ResponseMetadata == Dict([ResponseMetadata |-> Dict([HTTPStatusCode |-> PyInt(204)])])

Responses(method) ==
    CASE method = "generate_presigned_url" ->
           {Str("https://my-bucket.s3.amazonaws.com/reports/r1?Signature=x")}
      [] method = "generate_presigned_post" ->
           {Dict([url |-> Str("https://s3.amazonaws.com/my-bucket"),
                  fields |-> Dict([key |-> Str("report.txt")])])}
      [] method = "get_bucket_cors" ->
           {Dict([CORSRules |-> List(<<>>)]), Dict([CORSRules |-> List(<<CorsRule>>)])}
      [] method = "list_buckets" ->
           {Dict([Buckets |-> List(<<>>)]),
            Dict([Buckets |-> List(<<Dict([Name |-> Str("my-bucket")])>>)])}
      [] method = "get_bucket_policy" ->
           {Dict([Policy |-> json_dumps(Dict([Version |-> Str("2012-10-17")]))])}
      [] method \in {"upload_file", "upload_fileobj", "download_file"} -> {None}
      [] OTHER -> {None, ResponseMetadata}

Outcomes(method) ==
    {Returns(v) : v \in Responses(method)} \cup {Raises(ClientError(c)) : c \in ErrorCodes}

\* one call on the vendor client: positional and keyword arguments as passed
VendorCall(method, pos, kw) == [method |-> method, pos |-> pos, kw |-> kw]

NoKw == [none |-> TRUE]

\* a vendor call together with how it ended
Did(v, out) == [method |-> v.method, pos |-> v.pos, kw |-> v.kw, out |-> out]

\* The record of a facade call.
Call(op, args, vendor, result, logged, printed) ==
    [op |-> op, args |-> args, vendor |-> vendor, result |-> result,
     logged |-> logged, printed |-> printed]

NoCall == Call("__init__", NoKw, <<>>, Returns(None), <<>>, <<>>)

-----------------------------------------------------------------------------
\* AmazonS3.__init__: the state after construction. The default dicts of the
\* builders' args parameters exist, empty, from the definition of the class.

\* A dict object is known by its id; a dict is a function from the keys to their
\* values, Absent for a key the dict does not hold.
Ref(id) == [type |-> "ref", id |-> id]
Keys == {"Metadata", "ACL", "GrantRead", "GrantFullControl"}
Absent == [type |-> "absent"]
EmptyDict == [k \in Keys |-> Absent]

\* args={} in a def: one dict per function, made when the function is defined and
\* bound to args by every call that passes none.
DefaultArgsIds == {1, 2, 3}
DefaultArgs(fn) ==
    CASE fn = "extra_metadata" -> 1
      [] fn = "extra_public_read" -> 2
      [] fn = "extra_grant" -> 3

\* the dicts the caller writes as literals: at most MaxDicts of them
MaxDicts == 1
CallerIds == 4 .. (3 + MaxDicts)

Init ==
    /\ region_name \in Regions
    /\ config \in CtorConfigs
    /\ init_config = config
    /\ last_put = None
    /\ heap = [i \in DefaultArgsIds |-> EmptyDict]
    /\ held = {}
    /\ call = NoCall

FacadeUnchanged == UNCHANGED <<region_name, config, heap, held>>

-----------------------------------------------------------------------------
\* Bucket lifecycle

create_bucket(bucket_name, out) ==
    LET v == IF region_name = None
             THEN VendorCall("create_bucket", <<>>, [Bucket |-> bucket_name])
             ELSE VendorCall("create_bucket", <<>>,
                             [Bucket |-> bucket_name,
                              CreateBucketConfiguration |->
                                  Dict([LocationConstraint |-> region_name])])
        args == [bucket_name |-> bucket_name]
    IN /\ call' = IF out.kind = "raise"
                  THEN Call("create_bucket", args, <<Did(v, out)>>, Returns(False), <<out.val>>, <<>>)
                  ELSE Call("create_bucket", args, <<Did(v, out)>>, Returns(True), <<>>, <<>>)
       /\ FacadeUnchanged

\* f'  {bucket["Name"]}'
BucketLine(bucket) == Str("  " \o bucket.val.Name.val)

list_buckets(out) ==
    LET v == VendorCall("list_buckets", <<>>, NoKw)
    IN /\ call' = IF out.kind = "raise"
                  THEN Call("list_buckets", NoKw, <<Did(v, out)>>, out, <<>>, <<>>)
                  ELSE Call("list_buckets", NoKw, <<Did(v, out)>>, Returns(out.val.val.Buckets), <<>>,
                            <<Str("Existing buckets:")>> \o
                            [i \in 1 .. Len(out.val.val.Buckets.val) |->
                                BucketLine(out.val.val.Buckets.val[i])])
       /\ FacadeUnchanged

-----------------------------------------------------------------------------
\* Object transfer

\* upload_file, were it without the default of object_name
Mutant_upload_file(file_name, bucket, object_name, extra_args, callback, cfg, out) ==
    LET config1 == IF cfg = None THEN config ELSE cfg
        v == VendorCall("upload_file", <<file_name, bucket, object_name>>,
                        [ExtraArgs |-> extra_args, Callback |-> callback, Config |-> config1])
        args == [file_name |-> file_name, bucket |-> bucket, object_name |-> object_name,
                 extra_args |-> extra_args, callback |-> callback, config |-> cfg]
    IN /\ call' = IF out.kind = "raise"
                  THEN Call("upload_file", args, <<Did(v, out)>>, Returns(False),
                            <<out.val>>, <<>>)
                  ELSE Call("upload_file", args, <<Did(v, out)>>, Returns(True), <<>>, <<>>)
       /\ FacadeUnchanged

upload_file(file_name, bucket, object_name, extra_args, callback, cfg, out) ==
    LET object_name1 == IF object_name = None THEN file_name ELSE object_name
        config1 == IF cfg = None THEN config ELSE cfg
        v == VendorCall("upload_file", <<file_name, bucket, object_name1>>,
                        [ExtraArgs |-> extra_args, Callback |-> callback, Config |-> config1])
        args == [file_name |-> file_name, bucket |-> bucket, object_name |-> object_name,
                 extra_args |-> extra_args, callback |-> callback, config |-> cfg]
    IN /\ call' = IF out.kind = "raise"
                  THEN Call("upload_file", args, <<Did(v, out)>>, Returns(False), <<out.val>>, <<>>)
                  ELSE Call("upload_file", args, <<Did(v, out)>>, Returns(True), <<>>, <<>>)
       /\ FacadeUnchanged

\* object_name is a required parameter: a call without it raises TypeError before
\* the body runs.
upload_fileobj(fileobj, bucket, object_name, extra_args, callback, cfg, out) ==
    LET config1 == IF cfg = None THEN config ELSE cfg
        v == VendorCall("upload_fileobj", <<fileobj, bucket, object_name>>,
                        [ExtraArgs |-> extra_args, Callback |-> callback, Config |-> config1])
        args == [fileobj |-> fileobj, bucket |-> bucket, object_name |-> object_name,
                 extra_args |-> extra_args, callback |-> callback, config |-> cfg]
    IN /\ call' = IF object_name = Missing
                  THEN Call("upload_fileobj", args, <<>>, Raises(TypeError), <<>>, <<>>)
                  ELSE IF out.kind = "raise"
                  THEN Call("upload_fileobj", args, <<Did(v, out)>>, Returns(False), <<out.val>>, <<>>)
                  ELSE Call("upload_fileobj", args, <<Did(v, out)>>, Returns(True), <<>>, <<>>)
       /\ FacadeUnchanged

\* download_file, were it without the default of file_name
Mutant_download_file(bucket, object_name, file_name, cfg, out) ==
    LET config1 == IF cfg = None THEN config ELSE cfg
        v == VendorCall("download_file", <<bucket, object_name, file_name>>,
                        [Config |-> config1])
        args == [bucket |-> bucket, object_name |-> object_name, file_name |-> file_name,
                 config |-> cfg]
    IN /\ call' = Call("download_file", args, <<Did(v, out)>>, out, <<>>, <<>>)
       /\ FacadeUnchanged

download_file(bucket, object_name, file_name, cfg, out) ==
    LET file_name1 == IF file_name = None THEN object_name ELSE file_name
        config1 == IF cfg = None THEN config ELSE cfg
        v == VendorCall("download_file", <<bucket, object_name, file_name1>>,
                        [Config |-> config1])
        args == [bucket |-> bucket, object_name |-> object_name, file_name |-> file_name,
                 config |-> cfg]
    IN /\ call' = Call("download_file", args, <<Did(v, out)>>, out, <<>>, <<>>)
       /\ FacadeUnchanged

\* fileobj is a required parameter; the vendor method called is download_file.
download_fileobj(bucket, object_name, fileobj, cfg, out) ==
    LET config1 == IF cfg = None THEN config ELSE cfg
        v == VendorCall("download_file", <<bucket, object_name, fileobj>>,
                        [Config |-> config1])
        args == [bucket |-> bucket, object_name |-> object_name, fileobj |-> fileobj,
                 config |-> cfg]
    IN /\ call' = IF fileobj = Missing
                  THEN Call("download_fileobj", args, <<>>, Raises(TypeError), <<>>, <<>>)
                  ELSE Call("download_fileobj", args, <<Did(v, out)>>, out, <<>>, <<>>)
       /\ FacadeUnchanged

-----------------------------------------------------------------------------
\* Transfer configuration management

\* put_transfer_config, were it to keep the current value of a field not given
Mutant_put_transfer_config(multipart_threshold, max_concurrency, use_threads) ==
    /\ config' = TransferConfig(
           IF multipart_threshold = None THEN config.multipart_threshold
           ELSE multipart_threshold,
           IF max_concurrency = None THEN config.max_concurrency ELSE max_concurrency,
           IF use_threads = None THEN config.use_threads ELSE use_threads)
    /\ call' = Call("put_transfer_config",
                    [multipart_threshold |-> multipart_threshold,
                     max_concurrency |-> max_concurrency, use_threads |-> use_threads],
                    <<>>, Returns(True), <<>>, <<>>)
    /\ UNCHANGED <<region_name, heap, held>>

put_transfer_config(multipart_threshold, max_concurrency, use_threads) ==
    /\ config' = TransferConfig(multipart_threshold, max_concurrency, use_threads)
    /\ call' = Call("put_transfer_config",
                    [multipart_threshold |-> multipart_threshold,
                     max_concurrency |-> max_concurrency, use_threads |-> use_threads],
                    <<>>, Returns(True), <<>>, <<>>)
    /\ UNCHANGED <<region_name, heap, held>>

\* get_transfer_config, were it to install the configuration it builds
Mutant_get_transfer_config(multipart_threshold, max_concurrency, use_threads) ==
    /\ config' = TransferConfig(multipart_threshold, max_concurrency, use_threads)
    /\ call' = Call("get_transfer_config",
                    [multipart_threshold |-> multipart_threshold,
                     max_concurrency |-> max_concurrency, use_threads |-> use_threads],
                    <<>>,
                    Returns(TransferConfig(multipart_threshold, max_concurrency, use_threads)),
                    <<>>, <<>>)
    /\ UNCHANGED <<region_name, heap, held>>

get_transfer_config(multipart_threshold, max_concurrency, use_threads) ==
    /\ call' = Call("get_transfer_config",
                    [multipart_threshold |-> multipart_threshold,
                     max_concurrency |-> max_concurrency, use_threads |-> use_threads],
                    <<>>,
                    Returns(TransferConfig(multipart_threshold, max_concurrency, use_threads)),
                    <<>>, <<>>)
    /\ FacadeUnchanged

-----------------------------------------------------------------------------
\* Presigned access

create_presigned_url(bucket_name, object_name, expiration, out) ==
    LET v == VendorCall("generate_presigned_url", <<Str("get_object")>>,
                        [Params |-> Dict([Bucket |-> bucket_name, Key |-> object_name]),
                         ExpiresIn |-> expiration])
        args == [bucket_name |-> bucket_name, object_name |-> object_name,
                 expiration |-> expiration]
    IN /\ call' = IF out.kind = "raise"
                  THEN Call("create_presigned_url", args, <<Did(v, out)>>, Returns(None),
                            <<out.val>>, <<>>)
                  ELSE Call("create_presigned_url", args, <<Did(v, out)>>, Returns(out.val),
                            <<>>, <<>>)
       /\ FacadeUnchanged

create_presigned_url_expanded(client_method_name, method_parameters, expiration, http_method, out) ==
    LET v == VendorCall("generate_presigned_url", <<>>,
                        [ClientMethod |-> client_method_name, Params |-> method_parameters,
                         ExpiresIn |-> expiration, HttpMethod |-> http_method])
        args == [client_method_name |-> client_method_name,
                 method_parameters |-> method_parameters, expiration |-> expiration,
                 http_method |-> http_method]
    IN /\ call' = IF out.kind = "raise"
                  THEN Call("create_presigned_url_expanded", args, <<Did(v, out)>>, Returns(None),
                            <<out.val>>, <<>>)
                  ELSE Call("create_presigned_url_expanded", args, <<Did(v, out)>>, Returns(out.val),
                            <<>>, <<>>)
       /\ FacadeUnchanged

\* create_presigned_post, were it without its try/except
Mutant_create_presigned_post(bucket_name, object_name, fields, conditions, expiration, out) ==
    LET v == VendorCall("generate_presigned_post", <<bucket_name, object_name>>,
                        [Fields |-> fields, Conditions |-> conditions,
                         ExpiresIn |-> expiration])
        args == [bucket_name |-> bucket_name, object_name |-> object_name,
                 fields |-> fields, conditions |-> conditions, expiration |-> expiration]
    IN /\ call' = Call("create_presigned_post", args, <<Did(v, out)>>, out, <<>>, <<>>)
       /\ FacadeUnchanged

create_presigned_post(bucket_name, object_name, fields, conditions, expiration, out) ==
    LET v == VendorCall("generate_presigned_post", <<bucket_name, object_name>>,
                        [Fields |-> fields, Conditions |-> conditions,
                         ExpiresIn |-> expiration])
        args == [bucket_name |-> bucket_name, object_name |-> object_name,
                 fields |-> fields, conditions |-> conditions, expiration |-> expiration]
    IN /\ call' = IF out.kind = "raise"
                  THEN Call("create_presigned_post", args, <<Did(v, out)>>, Returns(None),
                            <<out.val>>, <<>>)
                  ELSE Call("create_presigned_post", args, <<Did(v, out)>>, Returns(out.val),
                            <<>>, <<>>)
       /\ FacadeUnchanged

-----------------------------------------------------------------------------
\* Bucket configuration documents

get_bucket_policy(bucket_name, out) ==
    LET v == VendorCall("get_bucket_policy", <<>>, [Bucket |-> bucket_name])
        args == [bucket_name |-> bucket_name]
    IN /\ call' = IF out.kind = "raise"
                  THEN Call("get_bucket_policy", args, <<Did(v, out)>>, out, <<>>, <<>>)
                  ELSE Call("get_bucket_policy", args, <<Did(v, out)>>, Returns(out.val.val.Policy),
                            <<>>, <<>>)
       /\ FacadeUnchanged

\* put_bucket_policy, were it to catch and log the client error as create_bucket does
Mutant_put_bucket_policy(bucket_name, bucket_policy, out) ==
    LET bucket_policy1 == json_dumps(bucket_policy)
        v == VendorCall("put_bucket_policy", <<>>,
                        [Bucket |-> bucket_name, Policy |-> bucket_policy1])
        args == [bucket_name |-> bucket_name, bucket_policy |-> bucket_policy]
    IN /\ call' = IF out.kind = "raise"
                  THEN Call("put_bucket_policy", args, <<Did(v, out)>>, Returns(False),
                            <<out.val>>, <<>>)
                  ELSE Call("put_bucket_policy", args, <<Did(v, out)>>, Returns(True),
                            <<>>, <<>>)
       /\ FacadeUnchanged

put_bucket_policy(bucket_name, bucket_policy, out) ==
    LET bucket_policy1 == json_dumps(bucket_policy)
        v == VendorCall("put_bucket_policy", <<>>,
                        [Bucket |-> bucket_name, Policy |-> bucket_policy1])
        args == [bucket_name |-> bucket_name, bucket_policy |-> bucket_policy]
    IN /\ call' = IF out.kind = "raise"
                  THEN Call("put_bucket_policy", args, <<Did(v, out)>>, out, <<>>, <<>>)
                  ELSE Call("put_bucket_policy", args, <<Did(v, out)>>, Returns(True), <<>>, <<>>)
       /\ FacadeUnchanged

delete_bucket_policy(bucket_name, out) ==
    LET v == VendorCall("delete_bucket_policy", <<>>, [Bucket |-> bucket_name])
        args == [bucket_name |-> bucket_name]
    IN /\ call' = IF out.kind = "raise"
                  THEN Call("delete_bucket_policy", args, <<Did(v, out)>>, out, <<>>, <<>>)
                  ELSE Call("delete_bucket_policy", args, <<Did(v, out)>>, Returns(True), <<>>, <<>>)
       /\ FacadeUnchanged

get_bucket_acl(bucket_name, out) ==
    LET v == VendorCall("get_bucket_acl", <<>>, [Bucket |-> bucket_name])
        args == [bucket_name |-> bucket_name]
    IN /\ call' = Call("get_bucket_acl", args, <<Did(v, out)>>, out, <<>>, <<>>)
       /\ FacadeUnchanged

get_bucket_website(bucket_name, out) ==
    LET v == VendorCall("get_bucket_website", <<>>, [Bucket |-> bucket_name])
        args == [bucket_name |-> bucket_name]
    IN /\ call' = Call("get_bucket_website", args, <<Did(v, out)>>, out, <<>>, <<>>)
       /\ FacadeUnchanged

put_bucket_website(bucket_name, website_configuration, out) ==
    LET v == VendorCall("put_bucket_website", <<>>,
                        [Bucket |-> bucket_name,
                         WebsiteConfiguration |-> website_configuration])
        args == [bucket_name |-> bucket_name,
                 website_configuration |-> website_configuration]
    IN /\ call' = IF out.kind = "raise"
                  THEN Call("put_bucket_website", args, <<Did(v, out)>>, out, <<>>, <<>>)
                  ELSE Call("put_bucket_website", args, <<Did(v, out)>>, Returns(True), <<>>, <<>>)
       /\ FacadeUnchanged

\* returns what the vendor call returns
delete_bucket_website(bucket_name, out) ==
    LET v == VendorCall("delete_bucket_website", <<>>, [Bucket |-> bucket_name])
        args == [bucket_name |-> bucket_name]
    IN /\ call' = Call("delete_bucket_website", args, <<Did(v, out)>>, out, <<>>, <<>>)
       /\ FacadeUnchanged

\* get_bucket_cors, were it to take every client error for a missing configuration
Mutant_get_bucket_cors(bucket_name, out) ==
    LET v == VendorCall("get_bucket_cors", <<>>, [Bucket |-> bucket_name])
        args == [bucket_name |-> bucket_name]
    IN /\ call' = IF out.kind = "raise"
                  THEN Call("get_bucket_cors", args, <<Did(v, out)>>, Returns(List(<<>>)),
                            <<>>, <<>>)
                  ELSE Call("get_bucket_cors", args, <<Did(v, out)>>,
                            Returns(out.val.val.CORSRules), <<>>, <<>>)
       /\ FacadeUnchanged

get_bucket_cors(bucket_name, out) ==
    LET v == VendorCall("get_bucket_cors", <<>>, [Bucket |-> bucket_name])
        args == [bucket_name |-> bucket_name]
    IN /\ call' = IF out.kind = "raise"
                  THEN IF out.val.code = "NoSuchCORSConfiguration"
                       THEN Call("get_bucket_cors", args, <<Did(v, out)>>, Returns(List(<<>>)),
                                 <<>>, <<>>)
                       ELSE Call("get_bucket_cors", args, <<Did(v, out)>>, Returns(None),
                                 <<out.val>>, <<>>)
                  ELSE Call("get_bucket_cors", args, <<Did(v, out)>>, Returns(out.val.val.CORSRules),
                            <<>>, <<>>)
       /\ FacadeUnchanged

put_bucket_cors(bucket_name, cors_configuration, out) ==
    LET v == VendorCall("put_bucket_cors", <<>>,
                        [Bucket |-> bucket_name, CORSConfiguration |-> cors_configuration])
        args == [bucket_name |-> bucket_name, cors_configuration |-> cors_configuration]
    IN /\ call' = IF out.kind = "raise"
                  THEN Call("put_bucket_cors", args, <<Did(v, out)>>, out, <<>>, <<>>)
                  ELSE Call("put_bucket_cors", args, <<Did(v, out)>>, Returns(True), <<>>, <<>>)
       /\ FacadeUnchanged

-----------------------------------------------------------------------------
\* The facade's calls on the vendor client and on its own configuration. The
\* history variables follow the calls: they are read by no operation.

Observe ==
    /\ init_config' = init_config
    /\ last_put' = IF call'.op = "put_transfer_config" THEN Dict(call'.args) ELSE last_put

Next ==
    \/ \E b \in BucketNames, out \in Outcomes("create_bucket") :
           create_bucket(b, out) /\ Observe
    \/ \E out \in Outcomes("list_buckets") : list_buckets(out) /\ Observe
    \/ \E f \in FileNames, b \in BucketNames, o \in ObjectNames \cup {None},
          e \in ExtraArgs, cb \in Callbacks, c \in CallConfigs,
          out \in Outcomes("upload_file") :
           upload_file(f, b, o, e, cb, c, out) /\ Observe
    \/ \E f \in FileObjs, b \in BucketNames, o \in ObjectNames \cup {None, Missing},
          e \in ExtraArgs, cb \in Callbacks, c \in CallConfigs,
          out \in Outcomes("upload_fileobj") :
           upload_fileobj(f, b, o, e, cb, c, out) /\ Observe
    \/ \E b \in BucketNames, o \in ObjectNames, f \in FileNames \cup {None},
          c \in CallConfigs, out \in Outcomes("download_file") :
           download_file(b, o, f, c, out) /\ Observe
    \/ \E b \in BucketNames, o \in ObjectNames, f \in FileObjs \cup {None, Missing},
          c \in CallConfigs, out \in Outcomes("download_file") :
           download_fileobj(b, o, f, c, out) /\ Observe
    \/ \E mt \in Thresholds, mc \in Concurrencies, ut \in UseThreads :
           put_transfer_config(mt, mc, ut) /\ Observe
    \/ \E mt \in Thresholds, mc \in Concurrencies, ut \in UseThreads :
           get_transfer_config(mt, mc, ut) /\ Observe
    \/ \E b \in BucketNames, o \in ObjectNames, x \in Expirations,
          out \in Outcomes("generate_presigned_url") :
           create_presigned_url(b, o, x, out) /\ Observe
    \/ \E m \in ClientMethods, p \in MethodParameters, x \in Expirations,
          h \in HttpMethods, out \in Outcomes("generate_presigned_url") :
           create_presigned_url_expanded(m, p, x, h, out) /\ Observe
    \/ \E b \in BucketNames, o \in ObjectNames, f \in Fields, cd \in Conditions,
          x \in Expirations, out \in Outcomes("generate_presigned_post") :
           create_presigned_post(b, o, f, cd, x, out) /\ Observe
    \/ \E b \in BucketNames, out \in Outcomes("get_bucket_policy") :
           get_bucket_policy(b, out) /\ Observe
    \/ \E b \in BucketNames, p \in Policies, out \in Outcomes("put_bucket_policy") :
           put_bucket_policy(b, p, out) /\ Observe
    \/ \E b \in BucketNames, out \in Outcomes("delete_bucket_policy") :
           delete_bucket_policy(b, out) /\ Observe
    \/ \E b \in BucketNames, out \in Outcomes("get_bucket_acl") :
           get_bucket_acl(b, out) /\ Observe
    \/ \E b \in BucketNames, out \in Outcomes("get_bucket_website") :
           get_bucket_website(b, out) /\ Observe
    \/ \E b \in BucketNames, w \in WebsiteConfigurations,
          out \in Outcomes("put_bucket_website") :
           put_bucket_website(b, w, out) /\ Observe
    \/ \E b \in BucketNames, out \in Outcomes("delete_bucket_website") :
           delete_bucket_website(b, out) /\ Observe
    \/ \E b \in BucketNames, out \in Outcomes("get_bucket_cors") :
           get_bucket_cors(b, out) /\ Observe
    \/ \E b \in BucketNames, c \in CorsConfigurations, out \in Outcomes("put_bucket_cors") :
           put_bucket_cors(b, c, out) /\ Observe

Spec == Init /\ [][Next]_vars

-----------------------------------------------------------------------------
\* Extra-args builders. The args parameter is not passed (NotPassed: the
\* function's default dict is bound), or is a dict the caller holds (Ref), or is
\* a dict literal written in the call (Literal: a new object).

Literal(d) == [type |-> "literal", val |-> d]
Literals == {Literal(EmptyDict)}
ArgsChoices == {NotPassed} \cup {Ref(i) : i \in held} \cup Literals
ScenarioMetadata == Dict([k |-> Str("v")])
Metadatas == {ScenarioMetadata, Dict([owner |-> Str("ops")])}
GrantReads == {Str("id=reader")}
GrantFullControls == {Str("id=owner")}

NewId == 4 + Cardinality(held \ DefaultArgsIds)

\* the object bound to args in a call of fn
Bound(fn, a) ==
    IF a = NotPassed THEN DefaultArgs(fn)
    ELSE IF a.type = "literal" THEN NewId
    ELSE a.id

\* the heap once the call's arguments are evaluated
Evaluated(a) ==
    IF a.type = "literal"
    THEN [i \in DOMAIN heap \cup {NewId} |-> IF i = NewId THEN a.val ELSE heap[i]]
    ELSE heap

CanPass(a) == a.type = "literal" => NewId \in CallerIds

\* extra_metadata, were it to build its result anew: args = {'Metadata': metadata}
Mutant_extra_metadata(metadata, a) ==
    LET id == Bound("extra_metadata", a)
    IN /\ CanPass(a)
       /\ heap' = [Evaluated(a) EXCEPT ![id] = [EmptyDict EXCEPT !["Metadata"] = metadata]]
       /\ held' = held \cup {id}
       /\ call' = Call("extra_metadata", [metadata |-> metadata, args |-> a], <<>>,
                       Returns(Ref(id)), <<>>, <<>>)
       /\ UNCHANGED <<region_name, config>>

extra_metadata(metadata, a) ==
    LET id == Bound("extra_metadata", a)
    IN /\ CanPass(a)
       /\ heap' = [Evaluated(a) EXCEPT ![id]["Metadata"] = metadata]
       /\ held' = held \cup {id}
       /\ call' = Call("extra_metadata", [metadata |-> metadata, args |-> a], <<>>,
                       Returns(Ref(id)), <<>>, <<>>)
       /\ UNCHANGED <<region_name, config>>

extra_public_read(a) ==
    LET id == Bound("extra_public_read", a)
    IN /\ CanPass(a)
       /\ heap' = [Evaluated(a) EXCEPT ![id]["ACL"] = Str("public-read")]
       /\ held' = held \cup {id}
       /\ call' = Call("extra_public_read", [args |-> a], <<>>,
                       Returns(Ref(id)), <<>>, <<>>)
       /\ UNCHANGED <<region_name, config>>

extra_grant(grant_read, grant_full_control, a) ==
    LET id == Bound("extra_grant", a)
    IN /\ CanPass(a)
       /\ heap' = [Evaluated(a) EXCEPT ![id]["GrantRead"] = grant_read,
                                       ![id]["GrantFullControl"] = grant_full_control]
       /\ held' = held \cup {id}
       /\ call' = Call("extra_grant",
                       [grant_read |-> grant_read,
                        grant_full_control |-> grant_full_control, args |-> a], <<>>,
                       Returns(Ref(id)), <<>>, <<>>)
       /\ UNCHANGED <<region_name, config>>

\* The builders, on the metadata values of Metadatas.
NextArgs ==
    \/ \E m \in Metadatas, a \in ArgsChoices : extra_metadata(m, a) /\ Observe
    \/ \E a \in ArgsChoices : extra_public_read(a) /\ Observe
    \/ \E r \in GrantReads, f \in GrantFullControls, a \in ArgsChoices :
           extra_grant(r, f, a) /\ Observe

\* AmazonS3(): the facade constructed with no arguments
InitArgs ==
    /\ Init
    /\ region_name = None
    /\ config = DefaultConfigArg

SpecArgs == InitArgs /\ [][NextArgs]_vars

\* The builders, on the one metadata value {k: v}.
NextChain ==
    \/ \E a \in ArgsChoices : extra_metadata(ScenarioMetadata, a) /\ Observe
    \/ \E a \in ArgsChoices : extra_public_read(a) /\ Observe
    \/ \E r \in GrantReads, f \in GrantFullControls, a \in ArgsChoices :
           extra_grant(r, f, a) /\ Observe

SpecChain == InitArgs /\ [][NextChain]_vars

-----------------------------------------------------------------------------
\* Properties of the facade's calls on the vendor client (under Spec)

Uploads == {"upload_file", "upload_fileobj"}
Downloads == {"download_file", "download_fileobj"}
Swallowing == {"create_bucket", "upload_file", "upload_fileobj", "create_presigned_url",
               "create_presigned_url_expanded", "create_presigned_post"}
Presigned == {"create_presigned_url", "create_presigned_url_expanded",
              "create_presigned_post"}
Propagating == {"download_file", "download_fileobj", "put_bucket_policy",
                "delete_bucket_policy", "put_bucket_website", "delete_bucket_website",
                "put_bucket_cors"}
PutsAndDeletes == {"put_bucket_policy", "delete_bucket_policy", "put_bucket_website",
                   "delete_bucket_website", "put_bucket_cors"}
ConfigFields == {"multipart_threshold", "max_concurrency", "use_threads"}

\* the latest call reached the vendor client
VendorCalled == Len(call.vendor) = 1
VendorRaised == VendorCalled /\ call.vendor[1].out.kind = "raise"
VendorReturned == VendorCalled /\ call.vendor[1].out.kind = "return"

\* the configuration the latest put_transfer_config call asked for, or the
\* constructor's when there was no such call
Installed ==
    IF last_put = None THEN init_config
    ELSE [type |-> "TransferConfig",
          multipart_threshold |-> last_put.val.multipart_threshold,
          max_concurrency |-> last_put.val.max_concurrency,
          use_threads |-> last_put.val.use_threads]

\* C1: an upload called with no config passes to the vendor client the
\* configuration of the latest put_transfer_config call (the constructor's when
\* there was none), and every field that call left unspecified is unset (None)
\* in it, whatever an earlier configuration held.
C1_UploadUsesLatestPut ==
    (call.op \in Uploads /\ VendorCalled /\ call.args.config = None) =>
        /\ call.vendor[1].kw.Config = Installed
        /\ last_put # None =>
              \A f \in ConfigFields :
                  last_put.val[f] = None => call.vendor[1].kw.Config[f] = None

\* an upload with no config after a put_transfer_config that left unspecified a
\* field the constructor's configuration had set
C1_Witness ==
    /\ call.op \in Uploads /\ VendorCalled /\ call.args.config = None
    /\ last_put # None
    /\ last_put.val.multipart_threshold = None
    /\ last_put.val.max_concurrency # None
    /\ init_config.multipart_threshold = PyInt(16777216)
    /\ call.vendor[1].kw.Config.multipart_threshold = None

\* C2: get_bucket_cors returns the vendor's CORS rules when the vendor call
\* succeeds, an empty list without logging when the vendor raises
\* NoSuchCORSConfiguration, and None with the error logged for any other error.
C2_GetBucketCorsOutcomes ==
    call.op = "get_bucket_cors" =>
        LET out == call.vendor[1].out
        IN /\ VendorCalled
           /\ out.kind = "return" =>
                 call.result = Returns(out.val.val.CORSRules) /\ call.logged = <<>>
           /\ out = Raises(ClientError("NoSuchCORSConfiguration")) =>
                 call.result = Returns(List(<<>>)) /\ call.logged = <<>>
           /\ (out.kind = "raise" /\ out # Raises(ClientError("NoSuchCORSConfiguration"))) =>
                 call.result = Returns(None) /\ call.logged = <<out.val>>

\* get_bucket_cors on a bucket the vendor reports as disabled
C2_Witness ==
    /\ call.op = "get_bucket_cors"
    /\ call.vendor[1].out = Raises(ClientError("AllAccessDisabled"))
    /\ call.result = Returns(None)
    /\ Len(call.logged) = 1

\* C3: create_bucket, the uploads and the presigned generators do not raise when
\* the vendor call raises a client error: they log it once and return False
\* (None for the presigned generators); when the vendor call succeeds they log
\* nothing and return True (the vendor's response for the presigned generators).
C3_SwallowAndLog ==
    (call.op \in Swallowing /\ VendorCalled) =>
        LET out == call.vendor[1].out
        IN /\ call.result.kind = "return"
           /\ out.kind = "raise" =>
                 /\ call.logged = <<out.val>>
                 /\ call.result.val = IF call.op \in Presigned THEN None ELSE False
           /\ out.kind = "return" =>
                 /\ call.logged = <<>>
                 /\ call.result.val = IF call.op \in Presigned THEN out.val ELSE True

\* create_presigned_post when the vendor raises a client error
C3_Witness ==
    /\ call.op = "create_presigned_post"
    /\ VendorRaised
    /\ call.result = Returns(None)
    /\ Len(call.logged) = 1

\* C4: the downloads and the bucket policy, website and CORS mutators let a
\* client error of the vendor call reach the caller: the call ends by raising
\* that error, returns nothing and logs nothing.
C4_Propagate ==
    (call.op \in Propagating /\ VendorRaised) =>
        /\ call.result = Raises(call.vendor[1].out.val)
        /\ call.logged = <<>>

\* put_bucket_policy when the vendor raises a client error
C4_Witness ==
    /\ call.op = "put_bucket_policy"
    /\ VendorRaised
    /\ call.result.kind = "raise"

\* C5: every bucket-configuration put or delete returns True whenever the vendor
\* call returns, whatever it returns.
C5_PutDeleteReturnTrue ==
    (call.op \in PutsAndDeletes /\ VendorReturned) => call.result = Returns(True)

\* the identifier of an upload's source: the file path, or the stream's name
SourceId ==
    IF call.op = "upload_file" THEN call.args.file_name ELSE call.args.fileobj.name

\* C6 as stated: an upload without objectName, from a file or from a stream,
\* passes the source identifier as object name; a given objectName is passed
\* unchanged.
C6_UploadDefaultsObjectName ==
    call.op \in Uploads =>
        /\ VendorCalled
        /\ call.vendor[1].pos[3] =
              IF call.args.object_name = None THEN SourceId ELSE call.args.object_name

\* C6, amended: upload_file without object_name passes the file path as object
\* name; upload_fileobj has no default: without the argument the call raises
\* TypeError before any vendor call, and a None object_name is passed as None;
\* a given object_name is passed unchanged by both.
C6_UploadObjectName ==
    /\ call.op = "upload_file" =>
          /\ VendorCalled
          /\ call.vendor[1].pos[3] =
                IF call.args.object_name = None THEN call.args.file_name
                ELSE call.args.object_name
    /\ call.op = "upload_fileobj" =>
          IF call.args.object_name = Missing
          THEN call.vendor = <<>> /\ call.result = Raises(TypeError)
          ELSE VendorCalled /\ call.vendor[1].pos[3] = call.args.object_name

\* upload_file without object_name, sending the file path
C6_Witness ==
    /\ call.op = "upload_file"
    /\ call.args.object_name = None
    /\ call.vendor[1].pos[3] = Str("report.txt")

\* C7 as stated: a download without destination, to a file or to a stream,
\* passes objectName as destination; a given destination is passed unchanged;
\* bucket and object name are passed unchanged.
C7_DownloadDefaultsDestination ==
    call.op \in Downloads =>
        LET dest == IF call.op = "download_file" THEN call.args.file_name
                    ELSE call.args.fileobj
        IN /\ VendorCalled
           /\ call.vendor[1].pos[1] = call.args.bucket
           /\ call.vendor[1].pos[2] = call.args.object_name
           /\ call.vendor[1].pos[3] =
                 IF dest \in {None, Missing} THEN call.args.object_name ELSE dest

\* C7, amended: download_file without file_name passes object_name as
\* destination; download_fileobj has no default: without the argument the call
\* raises TypeError before any vendor call, and a None fileobj is passed as None;
\* a given destination is passed unchanged, and so are bucket and object name.
C7_DownloadDestination ==
    /\ call.op = "download_file" =>
          /\ VendorCalled
          /\ call.vendor[1].pos =
                <<call.args.bucket, call.args.object_name,
                  IF call.args.file_name = None THEN call.args.object_name
                  ELSE call.args.file_name>>
    /\ call.op = "download_fileobj" =>
          IF call.args.fileobj = Missing
          THEN call.vendor = <<>> /\ call.result = Raises(TypeError)
          ELSE /\ VendorCalled
               /\ call.vendor[1].pos =
                     <<call.args.bucket, call.args.object_name, call.args.fileobj>>

\* download_file without file_name, writing to the object's name
C7_Witness ==
    /\ call.op = "download_file"
    /\ call.args.file_name = None
    /\ call.vendor[1].pos[3] = Str("reports/r1")

\* the transfers: the calls that take a config
Transfers == Uploads \cup Downloads

\* C10: get_transfer_config returns a configuration built from its arguments
\* and leaves the default alone; only put_transfer_config changes the default;
\* a transfer given a config passes that config, and one given none passes the
\* default, which the transfer leaves as it was.
C10_Step ==
    /\ config' # config => call'.op = "put_transfer_config"
    /\ call'.op = "get_transfer_config" =>
          /\ config' = config
          /\ call'.result =
                Returns([type |-> "TransferConfig",
                         multipart_threshold |-> call'.args.multipart_threshold,
                         max_concurrency |-> call'.args.max_concurrency,
                         use_threads |-> call'.args.use_threads])
    /\ (call'.op \in Transfers /\ Len(call'.vendor) = 1) =>
          /\ config' = config
          /\ call'.vendor[1].kw.Config =
                IF call'.args.config = None THEN config ELSE call'.args.config

C10_OnlyPutChangesDefault == [][C10_Step]_vars

\* an upload given a config other than the default, the default being one that
\* put_transfer_config installed
C10_Witness ==
    /\ call.op = "upload_file"
    /\ call.args.config # None
    /\ call.vendor[1].kw.Config = call.args.config
    /\ last_put # None
    /\ config = Installed
    /\ config # call.args.config

-----------------------------------------------------------------------------
\* Properties of the extra-args builders (under SpecChain and SpecArgs)

Builders == {"extra_metadata", "extra_public_read", "extra_grant"}

\* the keys a builder call c is to set, with their values
Own(c) ==
    CASE c.op = "extra_metadata" -> [k \in {"Metadata"} |-> c.args.metadata]
      [] c.op = "extra_public_read" -> [k \in {"ACL"} |-> Str("public-read")]
      [] c.op = "extra_grant" ->
           [k \in {"GrantRead", "GrantFullControl"} |->
               IF k = "GrantRead" THEN c.args.grant_read ELSE c.args.grant_full_control]

\* dict d with the keys of builder call c set
With(d, c) == [k \in Keys |-> IF k \in DOMAIN Own(c) THEN Own(c)[k] ELSE d[k]]

\* C8: a builder called with a mapping m returns that same mapping, its own keys
\* set and every other key of m as it was; so a builder chained on the result
\* of a builder called with {} yields the options of both, in either order of
\* the two calls.
C8_Step ==
    (call'.op \in Builders /\ call'.args.args # NotPassed) =>
        LET a == call'.args.args
            id == call'.result.val.id
            m == IF a.type = "literal" THEN a.val ELSE heap[a.id]
        IN /\ call'.result.kind = "return"
           /\ a.type = "ref" => id = a.id
           /\ a.type = "literal" => id \notin DOMAIN heap
           /\ heap'[id] = With(m, call')
           /\ (call.op \in Builders /\ call.args.args = Literal(EmptyDict)
                 /\ a = call.result.val) =>
                 /\ heap'[id] = With(With(EmptyDict, call), call')
                 /\ call.op # call'.op =>
                       heap'[id] = With(With(EmptyDict, call'), call)

C8_BuildersAugment == [][C8_Step]_vars

\* the scenario: extra_public_read({}), then extra_metadata({k: v}, result)
C8_Witness ==
    /\ call.op = "extra_metadata"
    /\ call.args.args = Ref(4)
    /\ call.result = Returns(Ref(4))
    /\ heap[4] = [EmptyDict EXCEPT !["ACL"] = Str("public-read"),
                                   !["Metadata"] = ScenarioMetadata]

\* C9: a builder called without a mapping returns exactly its own keys, whatever
\* builder calls came before, and changes no mapping an earlier call returned.
C9_Step ==
    (call'.op \in Builders /\ call'.args.args = NotPassed) =>
        /\ heap'[call'.result.val.id] = With(EmptyDict, call')
        /\ \A i \in held : heap'[i] = heap[i]

C9_NoArgStartsEmpty == [][C9_Step]_vars

====
